---- MODULE Spec2Model ----
(***************************************************************************)
(* Canonical transaction encoding, hashing, signature verification and the *)
(* packed key / signature codec of core/models/src/node/tx.rs, with the    *)
(* request handler of core/spec_test/src/main.rs that drives them.         *)
(*                                                                         *)
(* Byte strings are sequences of 0..255 at the widths the code writes.     *)
(* A call that unwinds (unwrap / expect on a failed conversion) is the     *)
(* value Panic, which every caller propagates as Rust's unwinding does.    *)
(***************************************************************************)
EXTENDS Integers, Sequences, FiniteSets, TLC

VARIABLES
    \* ---- transaction service (Spec) ----
    tx,         \* the FranklinTx held by the handler, or NoTx
    orig,       \* the transaction as it was signed and first processed
    out,        \* results of the operations applied to tx
    origOut,    \* results that were computed for orig
    changed,    \* name of the field altered after signing ("" when none)
    \* ---- two independent encodings (SpecPair) ----
    pa, pb,     \* two transactions
    ea, eb,     \* their get_bytes() results
    \* ---- packed codec (SpecCodec) ----
    cin,        \* the hex text handed to a deserializer, and where it came from
    cres,       \* what the deserializer returned
    \* ---- concurrent verification (SpecConc) ----
    wpc,        \* per execution context: position in check_tx_signature
    wtx,        \* per execution context: the transaction it verifies
    wres,       \* per execution context: the result it produced
    params,     \* state of the JUBJUB_PARAMS table
    inits       \* how many times the table has been constructed

vars == <<tx, orig, out, origOut, changed, pa, pb, ea, eb, cin, cres,
          wpc, wtx, wres, params, inits>>

-----------------------------------------------------------------------------
(* Bounds of the model *)

MaxToken == 1       \* TokenId values 0..MaxToken
MaxNonce == 1       \* Nonce values 0..MaxNonce
NumContexts == 2    \* concurrent execution contexts

-----------------------------------------------------------------------------
(* Bytes *)

Byte == 0..255

\* The unwinding of a failed unwrap()/expect(), as a byte-string result.
Panic == <<-1>>

IsPanic(b) == b = Panic

\* uN::to_be_bytes for a value that fits a machine integer of the model.
RECURSIVE to_be_bytes(_, _)
to_be_bytes(n, width) ==
    IF width = 0 THEN <<>>
    ELSE Append(to_be_bytes(n \div 256, width - 1), n % 256)

\* Vec::extend_from_slice over a list of parts; unwinding in the evaluation
\* of any part unwinds the whole call.
RECURSIVE Flatten(_)
Flatten(parts) ==
    IF parts = <<>> THEN <<>> ELSE Head(parts) \o Flatten(Tail(parts))

extend_all(parts) ==
    IF \E i \in 1..Len(parts) : IsPanic(parts[i]) THEN Panic ELSE Flatten(parts)

-----------------------------------------------------------------------------
(* BigDecimal: sign, decimal digits of the unscaled integer (most          *)
(* significant first, no leading zero), and the scale: the value is        *)
(* +-digits * 10^(-scale).                                                 *)

Dec(neg, digits, scale) == [neg |-> neg, digits |-> digits, scale |-> scale]

IsZeroDigits(d) == \A i \in 1..Len(d) : d[i] = 0

\* BigInt::to_u128 limit, u128::MAX = 340282366920938463463374607431768211455
U128_MAX_DIGITS ==
    <<3,4,0,2,8,2,3,6,6,9,2,0,9,3,8,4,6,3,4,6,3,3,7,4,6,0,7,4,3,1,7,6,8,2,1,1,4,5,5>>

RECURSIVE StripZeros(_)
StripZeros(d) ==
    IF Len(d) > 1 /\ Head(d) = 0 THEN StripZeros(Tail(d)) ELSE d

\* a <= b on digit strings without leading zeros
RECURSIVE DigitsLeq(_, _)
DigitsLeq(a, b) ==
    IF Len(a) # Len(b) THEN Len(a) < Len(b)
    ELSE IF a = <<>> THEN TRUE
    ELSE IF Head(a) # Head(b) THEN Head(a) < Head(b)
    ELSE DigitsLeq(Tail(a), Tail(b))

\* BigDecimal::with_scale(0).int_val: the unscaled integer divided by
\* 10^scale, the quotient truncated toward zero.
with_scale_0(a) ==
    IF a.scale >= Len(a.digits) THEN <<0>>
    ELSE SubSeq(a.digits, 1, Len(a.digits) - a.scale)

NoInt == <<-1>>     \* Option::None of an integer conversion

\* <BigDecimal as ToPrimitive>::to_u128 : None for a negative value or one
\* above the integer's range, otherwise the integer part of the value.
to_u128(a) ==
    IF IsZeroDigits(a.digits) THEN <<0>>
    ELSE IF a.neg THEN NoInt
    ELSE LET i == StripZeros(with_scale_0(a))
         IN  IF DigitsLeq(i, U128_MAX_DIGITS) THEN i ELSE NoInt

\* One step of long division of a digit string by 256: <<quotient, remainder>>.
RECURSIVE DivMod256(_, _, _)
DivMod256(d, q, r) ==
    IF d = <<>> THEN <<StripZeros(IF q = <<>> THEN <<0>> ELSE q), r>>
    ELSE LET cur == r * 10 + Head(d)
         IN  DivMod256(Tail(d), Append(q, cur \div 256), cur % 256)

RECURSIVE DigitsToInt(_)
DigitsToInt(d) ==
    IF d = <<>> THEN 0 ELSE DigitsToInt(SubSeq(d, 1, Len(d) - 1)) * 10 + d[Len(d)]

U128_BYTES == 16

\* u128::to_be_bytes of an integer given by its decimal digits: directly when
\* the integer fits the model's machine integers, else by long division.
RECURSIVE digits_to_be_bytes(_, _)
digits_to_be_bytes(d, width) ==
    IF width = 0 THEN <<>>
    ELSE IF Len(d) <= 9 THEN to_be_bytes(DigitsToInt(d), width)
    ELSE LET qr == DivMod256(d, <<>>, 0)
         IN  Append(digits_to_be_bytes(qr[1], width - 1), qr[2])

RECURSIVE Pow2(_)
Pow2(n) == IF n = 0 THEN 1 ELSE 2 * Pow2(n - 1)

-----------------------------------------------------------------------------
(* Amount packers (crate::node::pack_token_amount / pack_fee_amount): a    *)
(* decimal floating-point form of exponent and mantissa bits, the mantissa *)
(* rounded down, unwinding when the value has no integer form or the       *)
(* exponent does not fit.                                                  *)

AMOUNT_EXPONENT_BIT_WIDTH == 5
AMOUNT_MANTISSA_BIT_WIDTH == 19
FEE_EXPONENT_BIT_WIDTH == 4
FEE_MANTISSA_BIT_WIDTH == 4

\* Smallest exponent e such that digits / 10^e fits the mantissa.
RECURSIVE FloatOf(_, _, _)
FloatOf(d, e, mant) ==
    IF Len(d) <= 7 /\ DigitsToInt(d) < Pow2(mant)
    THEN [e |-> e, m |-> DigitsToInt(d)]
    ELSE FloatOf(SubSeq(d, 1, Len(d) - 1), e + 1, mant)

pack_as_float(amount, exp, mant) ==
    LET u == to_u128(amount)
    IN  IF u = NoInt THEN Panic
        ELSE LET f == FloatOf(u, 0, mant)
             IN  IF f.e >= Pow2(exp) THEN Panic
                 ELSE to_be_bytes(f.e * Pow2(mant) + f.m, (exp + mant) \div 8)

pack_token_amount(amount) ==
    pack_as_float(amount, AMOUNT_EXPONENT_BIT_WIDTH, AMOUNT_MANTISSA_BIT_WIDTH)

pack_fee_amount(fee) ==
    pack_as_float(fee, FEE_EXPONENT_BIT_WIDTH, FEE_MANTISSA_BIT_WIDTH)

-----------------------------------------------------------------------------
(* Curve elements (franklin_crypto::alt_babyjubjub), scaled down: a        *)
(* twisted Edwards curve -x^2 + y^2 = 1 + d x^2 y^2 over a small prime     *)
(* field Fr and a small scalar field Fs.  Field elements keep the 32-byte  *)
(* little-endian representation the library writes.                        *)

FR_MODULUS == 13
FS_MODULUS == 7
EDWARDS_D == 2
REPR_BYTES == 32

Fr == 0..(FR_MODULUS - 1)
Fs == 0..(FS_MODULUS - 1)

OnCurve(x, y) ==
    (y * y + (FR_MODULUS - 1) * x * x) % FR_MODULUS
        = (1 + EDWARDS_D * x * x * y * y) % FR_MODULUS

Point(x, y) == [x |-> x, y |-> y]

CurvePoints == {pt \in [x : Fr, y : Fr] : OnCurve(pt.x, pt.y)}

\* PrimeFieldRepr::write_le of a field element below 256.
repr_le(v) == [i \in 1..REPR_BYTES |-> IF i = 1 THEN v ELSE 0]

\* edwards::Point::write : y little-endian, the parity of x in the top bit
\* of the last byte.
Point_write(pt) ==
    [repr_le(pt.y) EXCEPT ![REPR_BYTES] = IF pt.x % 2 = 1 THEN 128 ELSE 0]

ReadErr == [ok |-> FALSE, x |-> 0, y |-> 0]
ReadOk(pt) == [ok |-> TRUE, x |-> pt.x, y |-> pt.y]

\* The integer a 32-byte little-endian representation holds, when it is
\* below 256; anything larger is above every modulus of the model.
TooBig == Pow2(8)
repr_value(bytes) ==
    IF \E i \in 2..REPR_BYTES : bytes[i] # 0 THEN TooBig ELSE bytes[1]

\* edwards::Point::get_for_y : the x with the requested parity on the curve
\* at y (x is negated when its parity differs from the sign), if any.
get_for_y(y, sign) ==
    LET xs == {x \in Fr : OnCurve(x, y)}
    IN  IF xs = {} THEN ReadErr
        ELSE LET want == {x \in xs : (x % 2 = 1) = sign}
             IN  IF want # {} THEN ReadOk(Point(CHOOSE x \in want : TRUE, y))
                 ELSE ReadOk(Point(CHOOSE x \in xs : TRUE, y))

\* edwards::Point::read : reads 32 bytes (an error when fewer are there),
\* takes the sign from the top bit, rejects y outside the field and y with
\* no point on the curve.
Point_read(bytes) ==
    IF Len(bytes) < REPR_BYTES THEN ReadErr
    ELSE LET b == SubSeq(bytes, 1, REPR_BYTES)
             sign == b[REPR_BYTES] >= 128
             yrepr == [b EXCEPT ![REPR_BYTES] = b[REPR_BYTES] % 128]
             y == repr_value(yrepr)
         IN  IF y >= FR_MODULUS THEN ReadErr ELSE get_for_y(y, sign)

\* Fs::from_repr(FsRepr::read_le(bytes)) : an error unless 32 bytes are
\* there and the value is below the modulus.  -1 stands for the error.
Fs_read(bytes) ==
    IF Len(bytes) < REPR_BYTES THEN -1
    ELSE LET v == repr_value(SubSeq(bytes, 1, REPR_BYTES))
         IN  IF v >= FS_MODULUS THEN -1 ELSE v

-----------------------------------------------------------------------------
(* Keys, signatures and addresses *)

\* Two signers' public keys.
KeyA == Point(0, 1)
KeyB == CHOOSE pt \in CurvePoints : pt.x % 2 = 1 /\ pt.y > 1
Keys == {KeyA, KeyB}

\* A signature is the pair the signer of secret key `key` produced over
\* `msg`; NoSigner marks bytes that no key ever produced.
NoSigner == Point(0, 0)
Sign(key, msg) == [key |-> key, msg |-> msg]
Garbage == Sign(NoSigner, <<>>)

\* PublicKey::verify_musig_pedersen : the verification equation holds
\* exactly for the signature made with this key over this message.
musig_pedersen_holds(pk, msg, sig) == sig.key = pk /\ sig.msg = msg

\* TxSignature::verify_musig_pedersen : Some(pub_key) when valid, else None.
NoKey == [some |-> FALSE, key |-> NoSigner]
SomeKey(k) == [some |-> TRUE, key |-> k]

verify_musig_pedersen(signature, msg) ==
    IF musig_pedersen_holds(signature.pub_key, msg, signature.sign)
    THEN SomeKey(signature.pub_key)
    ELSE NoKey

\* AccountAddress::from_pubkey : fixed-width, deterministic, distinct keys
\* give distinct addresses.
FR_ADDRESS_LEN == 27
from_pubkey(pk) ==
    [i \in 1..FR_ADDRESS_LEN |-> (16 * pk.x + pk.y + 31 * i) % 256]

Addresses == {from_pubkey(k) : k \in Keys}

ETH_ADDRESS_LEN == 20
EthAddresses == {[i \in 1..ETH_ADDRESS_LEN |-> IF i = ETH_ADDRESS_LEN THEN n ELSE 0] : n \in 1..2}

TOKEN_ID_BYTES == 2
NONCE_BYTES == 4

-----------------------------------------------------------------------------
(* Transactions *)

Transfer(from, to, token, amount, fee, nonce, signature) ==
    [type |-> "Transfer", from |-> from, to |-> to, token |-> token,
     amount |-> amount, fee |-> fee, nonce |-> nonce, signature |-> signature]

Withdraw(account, eth_address, token, amount, fee, nonce, signature) ==
    [type |-> "Withdraw", account |-> account, eth_address |-> eth_address,
     token |-> token, amount |-> amount, fee |-> fee, nonce |-> nonce,
     signature |-> signature]

Close(account, nonce, signature) ==
    [type |-> "Close", account |-> account, nonce |-> nonce,
     signature |-> signature]

TxSignature(pub_key, sign) == [pub_key |-> pub_key, sign |-> sign]

Transfer_TX_TYPE == 5

\* Mutant: Withdraw reuses Transfer's discriminant.
Withdraw_TX_TYPE_of_transfer == Transfer_TX_TYPE

Withdraw_TX_TYPE == 3
Close_TX_TYPE == 4

\* Mutant: the nonce is left out of the signed bytes.
Transfer_get_bytes_without_nonce(t) ==
    extend_all(<< <<Transfer_TX_TYPE>>,
                  t.from,
                  t.to,
                  to_be_bytes(t.token, TOKEN_ID_BYTES),
                  pack_token_amount(t.amount),
                  pack_fee_amount(t.fee) >>)

Transfer_get_bytes(t) ==
    extend_all(<< <<Transfer_TX_TYPE>>,
                  t.from,
                  t.to,
                  to_be_bytes(t.token, TOKEN_ID_BYTES),
                  pack_token_amount(t.amount),
                  pack_fee_amount(t.fee),
                  to_be_bytes(t.nonce, NONCE_BYTES) >>)

\* Mutant: the Ethereum address is left out of the signed bytes.
Withdraw_get_bytes_without_eth_address(t) ==
    extend_all(<< <<Withdraw_TX_TYPE>>,
                  t.account,
                  to_be_bytes(t.token, TOKEN_ID_BYTES),
                  IF to_u128(t.amount) = NoInt THEN Panic
                  ELSE digits_to_be_bytes(to_u128(t.amount), U128_BYTES),
                  pack_fee_amount(t.fee),
                  to_be_bytes(t.nonce, NONCE_BYTES) >>)

\* amount.to_u128().unwrap().to_be_bytes()
Withdraw_amount_bytes(amount) ==
    LET u == to_u128(amount)
    IN  IF u = NoInt THEN Panic ELSE digits_to_be_bytes(u, U128_BYTES)

Withdraw_get_bytes(t) ==
    extend_all(<< <<Withdraw_TX_TYPE>>,
                  t.account,
                  t.eth_address,
                  to_be_bytes(t.token, TOKEN_ID_BYTES),
                  Withdraw_amount_bytes(t.amount),
                  pack_fee_amount(t.fee),
                  to_be_bytes(t.nonce, NONCE_BYTES) >>)

Close_get_bytes(t) ==
    extend_all(<< <<Close_TX_TYPE>>,
                  t.account,
                  to_be_bytes(t.nonce, NONCE_BYTES) >>)

\* Results of verification: a returned boolean, or unwinding.
Ret(b) == [kind |-> "ret", val |-> b]
Unwound == [kind |-> "panic", val |-> FALSE]
NotRun == [kind |-> "none", val |-> FALSE]

\* Mutant: the derived address is not compared to the owner.
verify_against_any_owner(signature, bytes, owner) ==
    IF IsPanic(bytes) THEN Unwound
    ELSE Ret(verify_musig_pedersen(signature, bytes).some)

\* The shape shared by the three verify_signature() methods: encode, verify
\* the signature over the bytes, compare the derived address to the owner.
verify_against(signature, bytes, owner) ==
    IF IsPanic(bytes) THEN Unwound
    ELSE LET pub_key == verify_musig_pedersen(signature, bytes)
         IN  IF pub_key.some
             THEN IF from_pubkey(pub_key.key) = owner THEN Ret(TRUE) ELSE Ret(FALSE)
             ELSE Ret(FALSE)

Transfer_verify_signature(t) ==
    verify_against(t.signature, Transfer_get_bytes(t), t.from)

Withdraw_verify_signature(t) ==
    verify_against(t.signature, Withdraw_get_bytes(t), t.account)

Close_verify_signature(t) ==
    verify_against(t.signature, Close_get_bytes(t), t.account)

\* Sha256 of a byte string: 32 bytes that stand for exactly this input.
DIGEST_BYTES == 32
Sha256(bytes) == [len |-> DIGEST_BYTES, of |-> bytes]
NoDigest == [len |-> 0, of |-> <<>>]
UnwoundDigest == [len |-> 0, of |-> Panic]

\* Mutant: a Withdraw is hashed over the account and nonce alone.
FranklinTx_hash_withdraw_as_close(t) ==
    LET bytes == CASE t.type = "Transfer" -> Transfer_get_bytes(t)
                   [] t.type = "Withdraw" -> Close_get_bytes(t)
                   [] t.type = "Close" -> Close_get_bytes(t)
    IN  IF IsPanic(bytes) THEN UnwoundDigest ELSE Sha256(bytes)

FranklinTx_hash(t) ==
    LET bytes == CASE t.type = "Transfer" -> Transfer_get_bytes(t)
                   [] t.type = "Withdraw" -> Withdraw_get_bytes(t)
                   [] t.type = "Close" -> Close_get_bytes(t)
    IN  IF IsPanic(bytes) THEN UnwoundDigest ELSE Sha256(bytes)

FranklinTx_account(t) ==
    CASE t.type = "Transfer" -> t.from
      [] t.type = "Withdraw" -> t.account
      [] t.type = "Close" -> t.account

FranklinTx_nonce(t) == t.nonce

FranklinTx_check_signature(t) ==
    CASE t.type = "Transfer" -> Transfer_verify_signature(t)
      [] t.type = "Withdraw" -> Withdraw_verify_signature(t)
      [] t.type = "Close" -> Close_verify_signature(t)

FranklinTx_get_bytes(t) ==
    CASE t.type = "Transfer" -> Transfer_get_bytes(t)
      [] t.type = "Withdraw" -> Withdraw_get_bytes(t)
      [] t.type = "Close" -> Close_get_bytes(t)

-----------------------------------------------------------------------------
(* Input domains *)

Tokens == 0..MaxToken
Nonces == 0..MaxNonce

One       == Dec(FALSE, <<1>>, 0)                      \* 1
OneHalf   == Dec(FALSE, <<1, 5>>, 1)                   \* 1.5
Large     == Dec(FALSE, <<1,0,0,0,0,0,0,0,0,0,0>>, 0)  \* 10000000000
LargeP1   == Dec(FALSE, <<1,0,0,0,0,0,0,0,0,0,1>>, 0)  \* 10000000001
MinusOne  == Dec(TRUE, <<1>>, 0)                       \* -1
\* 2^128, one above u128::MAX
TwoTo128  == Dec(FALSE, Append(SubSeq(U128_MAX_DIGITS, 1, Len(U128_MAX_DIGITS) - 1), 6), 0)

Sixteen   == Dec(FALSE, <<1, 6>>, 0)
Seventeen == Dec(FALSE, <<1, 7>>, 0)

Amounts == {One, OneHalf, Large, LargeP1, MinusOne, TwoTo128}
Fees == {Sixteen, Seventeen}

\* The amounts every encoder accepts.
PairAmounts == {One, OneHalf, Large, LargeP1}

\* The decimal has a non-zero fractional part.
HasFraction(a) ==
    \E i \in 1..Len(a.digits) : i > Len(a.digits) - a.scale /\ a.digits[i] # 0

\* The decimal is above u128::MAX.
ExceedsU128(a) ==
    ~a.neg /\ ~DigitsLeq(StripZeros(with_scale_0(a)), U128_MAX_DIGITS)

NoSignature == TxSignature(NoSigner, Garbage)

Transfers(amounts, fees) ==
    {Transfer(f, t, k, a, e, n, NoSignature) :
        f \in Addresses, t \in Addresses, k \in Tokens, a \in amounts,
        e \in fees, n \in Nonces}

Withdraws(amounts, fees) ==
    {Withdraw(c, h, k, a, e, n, NoSignature) :
        c \in Addresses, h \in EthAddresses, k \in Tokens, a \in amounts,
        e \in fees, n \in Nonces}

Closes == {Close(c, n, NoSignature) : c \in Addresses, n \in Nonces}

Unsigned == Transfers(Amounts, Fees) \cup Withdraws(Amounts, Fees) \cup Closes

PairTxs == Transfers(PairAmounts, Fees) \cup Withdraws(PairAmounts, Fees) \cup Closes

\* What a client that holds the secret key of `signer` attaches to `t`: its
\* signature over the canonical bytes, with the public key it names.
SignedBy(t, signer, pub_key) ==
    LET m == FranklinTx_get_bytes(t)
    IN  [t EXCEPT !.signature =
            TxSignature(pub_key, IF IsPanic(m) THEN Garbage ELSE Sign(signer, m))]

\* The fields a variant signs, and the values each may take.
SignedFields(t) ==
    CASE t.type = "Transfer" -> {"from", "to", "token", "amount", "fee", "nonce"}
      [] t.type = "Withdraw" -> {"account", "eth_address", "token", "amount", "fee", "nonce"}
      [] t.type = "Close" -> {"account", "nonce"}

FieldValues(f) ==
    CASE f \in {"from", "to", "account"} -> Addresses
      [] f = "eth_address" -> EthAddresses
      [] f = "token" -> Tokens
      [] f = "amount" -> Amounts
      [] f = "fee" -> Fees
      [] f = "nonce" -> Nonces

-----------------------------------------------------------------------------
(* Spec: one transaction through the dispatcher's operations *)

NoTx == [type |-> "none"]
NotEncoded == <<-2>>
EmptyOut == [bytes |-> NotEncoded, valid |-> NotRun, hash |-> NoDigest]

\* A client signs a transaction and hands it over.
Submit ==
    /\ tx = NoTx
    /\ \E t \in Unsigned, signer \in Keys, pub_key \in Keys :
          tx' = SignedBy(t, signer, pub_key)
    /\ out' = EmptyOut
    /\ UNCHANGED <<orig, origOut, changed>>
    /\ UNCHANGED <<pa, pb, ea, eb, cin, cres, wpc, wtx, wres, params, inits>>

\* A transaction arrives with bytes in its signature that nobody signed.
SubmitUnsigned ==
    /\ tx = NoTx
    /\ \E t \in Unsigned, pub_key \in Keys :
          tx' = [t EXCEPT !.signature = TxSignature(pub_key, Garbage)]
    /\ out' = EmptyOut
    /\ UNCHANGED <<orig, origOut, changed>>
    /\ UNCHANGED <<pa, pb, ea, eb, cin, cres, wpc, wtx, wres, params, inits>>

\* main.rs check_tx_signature: tx.get_bytes() for the log line, then
\* tx.check_signature(); unwinding in the first ends the handler.
check_tx_signature ==
    /\ tx # NoTx
    /\ out.valid = NotRun
    /\ LET bytes == FranklinTx_get_bytes(tx)
       IN  out' = [out EXCEPT
                     !.bytes = bytes,
                     !.valid = IF IsPanic(bytes) THEN Unwound
                               ELSE FranklinTx_check_signature(tx)]
    /\ UNCHANGED <<tx, orig, origOut, changed>>
    /\ UNCHANGED <<pa, pb, ea, eb, cin, cres, wpc, wtx, wres, params, inits>>

\* FranklinTx::hash
Hash ==
    /\ tx # NoTx
    /\ out.hash = NoDigest
    /\ out' = [out EXCEPT !.hash = FranklinTx_hash(tx)]
    /\ UNCHANGED <<tx, orig, origOut, changed>>
    /\ UNCHANGED <<pa, pb, ea, eb, cin, cres, wpc, wtx, wres, params, inits>>

\* One signed field is replaced by a different value; the signature and the
\* public key stay as they were.
Tamper ==
    /\ tx # NoTx
    /\ orig = NoTx
    /\ out.valid # NotRun
    /\ out.hash # NoDigest
    /\ \E f \in SignedFields(tx) : \E v \in FieldValues(f) :
          /\ v # tx[f]
          /\ tx' = [tx EXCEPT ![f] = v]
          /\ changed' = f
    /\ orig' = tx
    /\ origOut' = out
    /\ out' = EmptyOut
    /\ UNCHANGED <<pa, pb, ea, eb, cin, cres, wpc, wtx, wres, params, inits>>

IdlePair == pa = NoTx /\ pb = NoTx /\ ea = NotEncoded /\ eb = NotEncoded
IdleCodec == cin = [kind |-> "none", from |-> [kind |-> "none", point |-> NoSigner, scalar |-> 0], text |-> <<>>]
             /\ cres = [state |-> "none", err |-> "", val |-> [kind |-> "none", point |-> NoSigner, scalar |-> 0]]
IdleConc == wpc = <<>> /\ wtx = <<>> /\ wres = <<>> /\ params = "uninit" /\ inits = 0
IdleService ==
    tx = NoTx /\ orig = NoTx /\ out = EmptyOut /\ origOut = EmptyOut /\ changed = ""

Init == IdleService /\ IdlePair /\ IdleCodec /\ IdleConc

Next ==
    \/ Submit
    \/ SubmitUnsigned
    \/ check_tx_signature
    \/ Hash
    \/ Tamper

Spec == Init /\ [][Next]_vars

-----------------------------------------------------------------------------
(* SpecPair: two transactions encoded independently *)

EncodePair ==
    /\ pa = NoTx
    /\ \E a \in PairTxs, b \in PairTxs :
          /\ pa' = a
          /\ pb' = b
          /\ ea' = FranklinTx_get_bytes(a)
          /\ eb' = FranklinTx_get_bytes(b)
    /\ UNCHANGED <<tx, orig, out, origOut, changed>>
    /\ UNCHANGED <<cin, cres, wpc, wtx, wres, params, inits>>

NextPair == EncodePair

SpecPair == Init /\ [][NextPair]_vars

-----------------------------------------------------------------------------
(* Packed key / signature codec *)

HexDigits == <<"0", "1", "2", "3", "4", "5", "6", "7",
               "8", "9", "a", "b", "c", "d", "e", "f">>
UpperDigits == <<"0", "1", "2", "3", "4", "5", "6", "7",
                 "8", "9", "A", "B", "C", "D", "E", "F">>

\* hex::encode : two lowercase digits per byte.
RECURSIVE hex_encode(_)
hex_encode(bytes) ==
    IF bytes = <<>> THEN <<>>
    ELSE <<HexDigits[(Head(bytes) \div 16) + 1], HexDigits[(Head(bytes) % 16) + 1]>>
            \o hex_encode(Tail(bytes))

IsHexChar(c) == \E i \in 1..16 : HexDigits[i] = c \/ UpperDigits[i] = c
HexVal(c) == (CHOOSE i \in 1..16 : HexDigits[i] = c \/ UpperDigits[i] = c) - 1

HexErr == <<-1>>

\* hex::decode : an error for an odd length or a character that is no hex
\* digit (either case is accepted), else one byte per two digits.
hex_decode(text) ==
    IF Len(text) % 2 = 1 THEN HexErr
    ELSE IF \E i \in 1..Len(text) : ~IsHexChar(text[i]) THEN HexErr
    ELSE [i \in 1..(Len(text) \div 2) |->
             16 * HexVal(text[2 * i - 1]) + HexVal(text[2 * i])]

\* Values that pass through the codec: a key is a point; a signature is
\* the pair (r, s).
KeyVal(pt) == [kind |-> "key", point |-> pt, scalar |-> 0]
SigVal(r, sc) == [kind |-> "sig", point |-> r, scalar |-> sc]
NoVal == [kind |-> "none", point |-> NoSigner, scalar |-> 0]

DeOk(v) == [state |-> "ok", err |-> "", val |-> v]
DeErr(msg) == [state |-> "err", err |-> msg, val |-> NoVal]
NoResult == [state |-> "none", err |-> "", val |-> NoVal]

PUBLIC_KEY_BYTES == 32
SIGNATURE_BYTES == 64
R_BAR_BYTES == 32

\* PackedPublicKey::serialize_packed
PackedPublicKey_serialize_packed(pk) == Point_write(pk)

\* impl Serialize for PackedPublicKey
PackedPublicKey_serialize(pk) == hex_encode(PackedPublicKey_serialize_packed(pk))

\* Mutant: the length of the decoded bytes is not checked.
PackedPublicKey_deserialize_any_length(text) ==
    LET bytes == hex_decode(text)
    IN  IF bytes = HexErr THEN DeErr("hex")
        ELSE LET pt == Point_read(bytes)
             IN  IF ~pt.ok THEN DeErr("Failed to restore point")
                 ELSE DeOk(KeyVal(Point(pt.x, pt.y)))

\* impl Deserialize for PackedPublicKey
PackedPublicKey_deserialize(text) ==
    LET bytes == hex_decode(text)
    IN  IF bytes = HexErr THEN DeErr("hex")
        ELSE IF Len(bytes) # PUBLIC_KEY_BYTES THEN DeErr("PublicKey size mismatch")
        ELSE LET pt == Point_read(bytes)
             IN  IF ~pt.ok THEN DeErr("Failed to restore point")
                 ELSE DeOk(KeyVal(Point(pt.x, pt.y)))

\* Mutant: s is written before r.
PackedSignature_serialize_packed_s_first(sig) ==
    repr_le(sig.scalar) \o Point_write(sig.point)

\* PackedSignature::serialize_packed : r in the first 32 bytes, s
\* little-endian in the last 32.
PackedSignature_serialize_packed(sig) ==
    Point_write(sig.point) \o repr_le(sig.scalar)

\* impl Serialize for PackedSignature
PackedSignature_serialize(sig) == hex_encode(PackedSignature_serialize_packed(sig))

\* impl Deserialize for PackedSignature
PackedSignature_deserialize(text) ==
    LET bytes == hex_decode(text)
    IN  IF bytes = HexErr THEN DeErr("hex")
        ELSE IF Len(bytes) # SIGNATURE_BYTES THEN DeErr("Signature size mismatch")
        ELSE LET r_bar == SubSeq(bytes, 1, R_BAR_BYTES)
                 s_bar == SubSeq(bytes, R_BAR_BYTES + 1, Len(bytes))
                 r == Point_read(r_bar)
                 sc == Fs_read(s_bar)
             IN  IF ~r.ok THEN DeErr("Failed to restore R point from R_bar")
                 ELSE IF sc = -1 THEN DeErr("Failed to restore s scalar from s_bar")
                 ELSE DeOk(SigVal(Point(r.x, r.y), sc))

\* Texts a peer may send.  Byte strings around the legal length, with first
\* bytes on and off the curve and inside and outside the fields; each as
\* lowercase hex, as uppercase hex, with a character that is no hex digit,
\* and with the last character missing.
FirstBytes == 0..(FR_MODULUS + 1)
TopBytes == {0, 1, 128}

Field32(first, top) ==
    [i \in 1..REPR_BYTES |-> IF i = 1 THEN first ELSE IF i = REPR_BYTES THEN top ELSE 0]

Resize(bytes, n) ==
    IF n <= Len(bytes) THEN SubSeq(bytes, 1, n) ELSE bytes \o [i \in 1..(n - Len(bytes)) |-> 0]

KeyByteStrings ==
    {Resize(Field32(f, t), n) :
        f \in FirstBytes, t \in TopBytes,
        n \in {PUBLIC_KEY_BYTES - 1, PUBLIC_KEY_BYTES, PUBLIC_KEY_BYTES + 1}}

SigByteStrings ==
    {Resize(Field32(f, t) \o Field32(g, u), n) :
        f \in {0, 1, 4, FR_MODULUS}, t \in {0, 128},
        g \in {0, FS_MODULUS - 1, FS_MODULUS}, u \in {0, 1},
        n \in {SIGNATURE_BYTES - 1, SIGNATURE_BYTES, SIGNATURE_BYTES + 1}}

Upper(text) ==
    [i \in 1..Len(text) |->
        IF \E k \in 1..16 : HexDigits[k] = text[i]
        THEN UpperDigits[CHOOSE k \in 1..16 : HexDigits[k] = text[i]]
        ELSE text[i]]

Variants(text) ==
    {text, Upper(text), [text EXCEPT ![2] = "g"], SubSeq(text, 1, Len(text) - 1)}

KeyTexts == UNION {Variants(hex_encode(b)) : b \in KeyByteStrings}
SigTexts == UNION {Variants(hex_encode(b)) : b \in SigByteStrings}

NoInput == [kind |-> "none", from |-> NoVal, text |-> <<>>]

\* A public key is serialized to its hex text.
SerializeKey ==
    /\ cin = NoInput
    /\ \E pt \in CurvePoints :
          cin' = [kind |-> "key", from |-> KeyVal(pt), text |-> PackedPublicKey_serialize(pt)]
    /\ UNCHANGED cres
    /\ UNCHANGED <<tx, orig, out, origOut, changed, pa, pb, ea, eb>>
    /\ UNCHANGED <<wpc, wtx, wres, params, inits>>

\* A signature is serialized to its hex text.
SerializeSig ==
    /\ cin = NoInput
    /\ \E r \in CurvePoints, sc \in Fs :
          cin' = [kind |-> "sig", from |-> SigVal(r, sc),
                  text |-> PackedSignature_serialize(SigVal(r, sc))]
    /\ UNCHANGED cres
    /\ UNCHANGED <<tx, orig, out, origOut, changed, pa, pb, ea, eb>>
    /\ UNCHANGED <<wpc, wtx, wres, params, inits>>

\* A text arrives where a public key is expected (main.rs, /address).
ReceiveKeyText ==
    /\ cin = NoInput
    /\ \E t \in KeyTexts : cin' = [kind |-> "key", from |-> NoVal, text |-> t]
    /\ UNCHANGED cres
    /\ UNCHANGED <<tx, orig, out, origOut, changed, pa, pb, ea, eb>>
    /\ UNCHANGED <<wpc, wtx, wres, params, inits>>

\* A text arrives where a signature is expected (main.rs, /check_signature).
ReceiveSigText ==
    /\ cin = NoInput
    /\ \E t \in SigTexts : cin' = [kind |-> "sig", from |-> NoVal, text |-> t]
    /\ UNCHANGED cres
    /\ UNCHANGED <<tx, orig, out, origOut, changed, pa, pb, ea, eb>>
    /\ UNCHANGED <<wpc, wtx, wres, params, inits>>

DeserializeKey ==
    /\ cin.kind = "key"
    /\ cres = NoResult
    /\ cres' = PackedPublicKey_deserialize(cin.text)
    /\ UNCHANGED cin
    /\ UNCHANGED <<tx, orig, out, origOut, changed, pa, pb, ea, eb>>
    /\ UNCHANGED <<wpc, wtx, wres, params, inits>>

DeserializeSig ==
    /\ cin.kind = "sig"
    /\ cres = NoResult
    /\ cres' = PackedSignature_deserialize(cin.text)
    /\ UNCHANGED cin
    /\ UNCHANGED <<tx, orig, out, origOut, changed, pa, pb, ea, eb>>
    /\ UNCHANGED <<wpc, wtx, wres, params, inits>>

NextCodec ==
    \/ SerializeKey
    \/ SerializeSig
    \/ ReceiveKeyText
    \/ ReceiveSigText
    \/ DeserializeKey
    \/ DeserializeSig

SpecCodec == Init /\ [][NextCodec]_vars

-----------------------------------------------------------------------------
(* SpecConc: check_tx_signature on several execution contexts at once.     *)
(* JUBJUB_PARAMS is a lazy_static: the first dereference constructs the    *)
(* table under a Once, a dereference that meets a construction in progress *)
(* waits for it, and every later one reads the constructed table.          *)

Contexts == 1..NumContexts

AddrA == from_pubkey(KeyA)
AddrB == from_pubkey(KeyB)

\* Transactions of the three variants: correctly signed, signed by a key
\* that does not own the account, not encodable, and unsigned.
ConcTxs ==
    { SignedBy(Transfer(AddrA, AddrB, 1, OneHalf, Sixteen, 0, NoSignature), KeyA, KeyA),
      SignedBy(Transfer(AddrA, AddrB, 1, OneHalf, Sixteen, 0, NoSignature), KeyB, KeyB),
      SignedBy(Withdraw(AddrB, CHOOSE h \in EthAddresses : TRUE, 0, One, Sixteen, 1,
                        NoSignature), KeyB, KeyB),
      SignedBy(Withdraw(AddrB, CHOOSE h \in EthAddresses : TRUE, 0, MinusOne, Sixteen, 1,
                        NoSignature), KeyB, KeyB),
      SignedBy(Close(AddrA, 0, NoSignature), KeyA, KeyA),
      Close(AddrA, 1, TxSignature(KeyA, Garbage)) }

\* A request reaches an idle context.
Accept(c) ==
    /\ wpc[c] = "idle"
    /\ \E t \in ConcTxs : wtx' = [wtx EXCEPT ![c] = t]
    /\ wpc' = [wpc EXCEPT ![c] = "encode"]
    /\ wres' = [wres EXCEPT ![c] = NotRun]
    /\ UNCHANGED <<params, inits>>
    /\ UNCHANGED <<tx, orig, out, origOut, changed, pa, pb, ea, eb, cin, cres>>

\* The canonical bytes are computed; when that unwinds the request ends
\* without touching the table.
Encode(c) ==
    /\ wpc[c] = "encode"
    /\ IF IsPanic(FranklinTx_get_bytes(wtx[c]))
       THEN /\ wpc' = [wpc EXCEPT ![c] = "done"]
            /\ wres' = [wres EXCEPT ![c] = Unwound]
       ELSE /\ wpc' = [wpc EXCEPT ![c] = "deref"]
            /\ UNCHANGED wres
    /\ UNCHANGED <<wtx, params, inits>>
    /\ UNCHANGED <<tx, orig, out, origOut, changed, pa, pb, ea, eb, cin, cres>>

\* Mutant: no Once; a context constructs the table whenever it does not
\* find it ready.
Deref_without_once(c) ==
    /\ wpc[c] = "deref"
    /\ IF params # "ready"
       THEN /\ params' = "running"
            /\ wpc' = [wpc EXCEPT ![c] = "construct"]
       ELSE /\ UNCHANGED params
            /\ wpc' = [wpc EXCEPT ![c] = "verify"]
    /\ UNCHANGED <<wtx, wres, inits>>
    /\ UNCHANGED <<tx, orig, out, origOut, changed, pa, pb, ea, eb, cin, cres>>

\* &JUBJUB_PARAMS : the Once lets exactly one context construct the table;
\* a context that finds the construction running stays here until it is
\* complete.
Deref(c) ==
    /\ wpc[c] = "deref"
    /\ params # "running"
    /\ IF params = "uninit"
       THEN /\ params' = "running"
            /\ wpc' = [wpc EXCEPT ![c] = "construct"]
       ELSE /\ UNCHANGED params
            /\ wpc' = [wpc EXCEPT ![c] = "verify"]
    /\ UNCHANGED <<wtx, wres, inits>>
    /\ UNCHANGED <<tx, orig, out, origOut, changed, pa, pb, ea, eb, cin, cres>>

\* AltJubjubBn256::new() returns and the Once is marked complete.
Construct(c) ==
    /\ wpc[c] = "construct"
    /\ params' = "ready"
    /\ inits' = inits + 1
    /\ wpc' = [wpc EXCEPT ![c] = "verify"]
    /\ UNCHANGED <<wtx, wres>>
    /\ UNCHANGED <<tx, orig, out, origOut, changed, pa, pb, ea, eb, cin, cres>>

\* The verification reads the table; a table that is not constructed holds
\* no curve, and the verification over it may answer anything.
Verify(c) ==
    /\ wpc[c] = "verify"
    /\ IF params = "ready"
       THEN wres' = [wres EXCEPT ![c] = FranklinTx_check_signature(wtx[c])]
       ELSE \E b \in BOOLEAN : wres' = [wres EXCEPT ![c] = Ret(b)]
    /\ wpc' = [wpc EXCEPT ![c] = "done"]
    /\ UNCHANGED <<wtx, params, inits>>
    /\ UNCHANGED <<tx, orig, out, origOut, changed, pa, pb, ea, eb, cin, cres>>

\* The response is sent and the context is free again.
Respond(c) ==
    /\ wpc[c] = "done"
    /\ wpc' = [wpc EXCEPT ![c] = "idle"]
    /\ wtx' = [wtx EXCEPT ![c] = NoTx]
    /\ wres' = [wres EXCEPT ![c] = NotRun]
    /\ UNCHANGED <<params, inits>>
    /\ UNCHANGED <<tx, orig, out, origOut, changed, pa, pb, ea, eb, cin, cres>>

InitConc ==
    /\ IdleService /\ IdlePair /\ IdleCodec
    /\ wpc = [c \in Contexts |-> "idle"]
    /\ wtx = [c \in Contexts |-> NoTx]
    /\ wres = [c \in Contexts |-> NotRun]
    /\ params = "uninit"
    /\ inits = 0

NextConc ==
    \E c \in Contexts :
        \/ Accept(c)
        \/ Encode(c)
        \/ Deref(c)
        \/ Construct(c)
        \/ Verify(c)
        \/ Respond(c)

SpecConc == InitConc /\ [][NextConc]_vars

-----------------------------------------------------------------------------
(* Properties *)

\* The owner a variant declares.
DeclaredOwner(t) ==
    CASE t.type = "Transfer" -> t.from
      [] t.type = "Withdraw" -> t.account
      [] t.type = "Close" -> t.account

\* The two checks of verification, over canonical bytes `bytes`.
SignatureHolds(t, bytes) ==
    /\ ~IsPanic(bytes)
    /\ musig_pedersen_holds(t.signature.pub_key, bytes, t.signature.sign)

OwnerMatches(t) == from_pubkey(t.signature.pub_key) = DeclaredOwner(t)

VerifiedAsClaimed(t, o) ==
    o.valid # NotRun =>
        /\ (o.valid = Ret(TRUE)) <=> (SignatureHolds(t, o.bytes) /\ OwnerMatches(t))
        /\ (~IsPanic(o.bytes) /\ ~(SignatureHolds(t, o.bytes) /\ OwnerMatches(t)))
              => o.valid = Ret(FALSE)

\* C1: check_signature() of a transaction returns true exactly when the
\* embedded signature is valid over the transaction's canonical bytes under
\* the embedded public key and the address derived from that key is the
\* declared owner; when the bytes exist and either check fails it returns
\* false.
C1_VerifyIffSignatureAndOwner ==
    /\ VerifiedAsClaimed(tx, out)
    /\ VerifiedAsClaimed(orig, origOut)

\* C1 witness: a signature that is valid over the canonical bytes, under a
\* key that does not own the account, was verified and refused.
C1_ValidSignatureWrongOwner ==
    /\ tx # NoTx
    /\ out.valid = Ret(FALSE)
    /\ SignatureHolds(tx, out.bytes)
    /\ ~OwnerMatches(tx)

TransferVerifiedThenChanged ==
    /\ orig.type = "Transfer"
    /\ origOut.valid = Ret(TRUE)
    /\ changed \in {"amount", "nonce", "to"}

\* C2 as stated: after a verified Transfer has its amount, nonce or
\* recipient changed to a different value under the same signature and key,
\* a verification that returns, returns false.
C2_AnyChangeInvalidates ==
    (TransferVerifiedThenChanged /\ out.valid.kind = "ret") => out.valid = Ret(FALSE)

\* C2 amended: after a verified Transfer has its nonce or recipient changed,
\* or its amount changed to one whose packed form differs, under the same
\* signature and key, verification returns false (and unwinds when the new
\* amount cannot be packed).
C2_EncodedChangeInvalidates ==
    ( /\ TransferVerifiedThenChanged
      /\ out.valid # NotRun
      /\ changed = "amount" => pack_token_amount(tx.amount) # pack_token_amount(orig.amount) )
    => out.valid = IF IsPanic(pack_token_amount(tx.amount)) THEN Unwound ELSE Ret(FALSE)

\* C2 witness: a verified Transfer whose amount was changed to one that
\* packs differently was verified again and refused.
C2_AmountChangedAndRefused ==
    /\ TransferVerifiedThenChanged
    /\ changed = "amount"
    /\ pack_token_amount(tx.amount) # pack_token_amount(orig.amount)
    /\ out.valid = Ret(FALSE)

PairEncoded == pa # NoTx /\ pb # NoTx /\ ~IsPanic(ea) /\ ~IsPanic(eb)

\* C3 as stated: two values of the same variant that differ in a signed
\* field have different canonical bytes.
C3_EncodingInjective ==
    (PairEncoded /\ pa.type = pb.type /\ pa # pb) => ea # eb

\* A field is written at full width, so its value is its encoding.
DiffersIn(f) == pa[f] # pb[f]

EncodedFieldDiffers ==
    CASE pa.type = "Transfer" ->
            \/ \E f \in {"from", "to", "token", "nonce"} : DiffersIn(f)
            \/ pack_token_amount(pa.amount) # pack_token_amount(pb.amount)
            \/ pack_fee_amount(pa.fee) # pack_fee_amount(pb.fee)
      [] pa.type = "Withdraw" ->
            \/ \E f \in {"account", "eth_address", "token", "nonce"} : DiffersIn(f)
            \/ to_u128(pa.amount) # to_u128(pb.amount)
            \/ pack_fee_amount(pa.fee) # pack_fee_amount(pb.fee)
      [] pa.type = "Close" ->
            \E f \in {"account", "nonce"} : DiffersIn(f)

\* C3 amended: two values of the same variant have different canonical
\* bytes exactly when they differ in a field written at full width, or
\* their amounts or fees differ after packing / conversion to an integer.
C3_InjectiveOnEncodedFields ==
    (PairEncoded /\ pa.type = pb.type) => (EncodedFieldDiffers <=> ea # eb)

\* C3 witness: two Transfers that differ in the amount alone, by amounts
\* that pack differently, were encoded to different bytes.
C3_AmountsApartEncodedApart ==
    /\ PairEncoded
    /\ pa.type = "Transfer" /\ pb.type = "Transfer"
    /\ pb = [pa EXCEPT !.amount = pb.amount]
    /\ pack_token_amount(pa.amount) # pack_token_amount(pb.amount)
    /\ ea # eb

ExpectedTag(t) ==
    CASE t.type = "Transfer" -> 5
      [] t.type = "Withdraw" -> 3
      [] t.type = "Close" -> 4

\* C4: the first canonical byte is 5 for a Transfer, 3 for a Withdraw and 4
\* for a Close, and values of different variants never have equal bytes.
C4_DiscriminantSeparation ==
    PairEncoded =>
        /\ ea[1] = ExpectedTag(pa)
        /\ eb[1] = ExpectedTag(pb)
        /\ pa.type # pb.type => ea # eb

\* C4 witness: a Transfer and a Withdraw were both encoded.
C4_TransferAndWithdrawEncoded ==
    PairEncoded /\ pa.type = "Transfer" /\ pb.type = "Withdraw"

\* C5 as stated: encoding a Withdraw whose amount has a fractional part or
\* is above the integer's range fails.
C5_FractionOrOverflowFails ==
    ( /\ tx.type = "Withdraw"
      /\ out.bytes # NotEncoded
      /\ HasFraction(tx.amount) \/ ExceedsU128(tx.amount) )
    => IsPanic(out.bytes)

\* C6 as stated: check_signature() always returns a boolean.
C6_CheckSignatureTotal ==
    out.valid # NotRun => out.valid.kind = "ret"

\* C7: deserializing the text that serializing a key or a signature
\* produced succeeds and yields the same key or signature, and the text is
\* the lowercase hex of the compressed point, followed for a signature by
\* the 32-byte little-endian scalar.
C7_RoundTrip ==
    (cin.from # NoVal /\ cres # NoResult) =>
        /\ cres = DeOk(cin.from)
        /\ cin.kind = "key" =>
              /\ Len(cin.text) = 2 * 32
              /\ cin.text = hex_encode(Point_write(cin.from.point))
        /\ cin.kind = "sig" =>
              /\ Len(cin.text) = 2 * 64
              /\ SubSeq(cin.text, 1, 64) = hex_encode(Point_write(cin.from.point))
              /\ SubSeq(cin.text, 65, 128) = hex_encode(repr_le(cin.from.scalar))

\* C7 witness: a signature with an odd-x point and a non-zero scalar went
\* through serialization and deserialization.
C7_SignatureWentRound ==
    /\ cin.kind = "sig"
    /\ cin.from # NoVal
    /\ cin.from.point.x % 2 = 1
    /\ cin.from.scalar > 0
    /\ cres.state = "ok"

IsHexText(text) ==
    Len(text) % 2 = 0 /\ \A i \in 1..Len(text) : IsHexChar(text[i])

ClearTop(bytes) == [bytes EXCEPT ![Len(bytes)] = bytes[Len(bytes)] % 128]

\* The 32 bytes hold, beside the sign bit, the y of a point of the curve.
HoldsPoint(bytes) == \E pt \in CurvePoints : ClearTop(bytes) = repr_le(pt.y)

\* The 32 bytes hold a scalar of Fs.
HoldsScalar(bytes) == \E v \in Fs : bytes = repr_le(v)

Malformed ==
    \/ ~IsHexText(cin.text)
    \/ cin.kind = "key" /\
          \/ Len(cin.text) # 2 * 32
          \/ ~HoldsPoint(hex_decode(cin.text))
    \/ cin.kind = "sig" /\
          \/ Len(cin.text) # 2 * 64
          \/ ~HoldsPoint(SubSeq(hex_decode(cin.text), 1, 32))
          \/ ~HoldsScalar(SubSeq(hex_decode(cin.text), 33, 64))

\* C8: deserializing a key or signature text that is not hex, that is not
\* of exactly 32 / 64 bytes, or whose bytes are no curve point / scalar,
\* returns an error and no value.
C8_MalformedTextIsAnError ==
    (cres # NoResult /\ Malformed) => (cres.state = "err" /\ cres.val = NoVal)

\* C8 witness: a well-formed hex text of 31 bytes was handed to the key
\* deserializer, which returned an error.
C8_ThirtyOneBytesRefused ==
    /\ cin.kind = "key"
    /\ IsHexText(cin.text)
    /\ Len(cin.text) = 2 * 31
    /\ cres.state = "err"

\* C9: every context's result is the result of check_signature() on its own
\* transaction, whatever the others do; the parameter table is constructed
\* at most once, is constructed before any verification reads it, and is
\* not constructed again.
C9_ConcurrentAsSequential ==
    /\ \A c \in Contexts :
          /\ wpc[c] = "done" => wres[c] = FranklinTx_check_signature(wtx[c])
          /\ wpc[c] = "verify" => params = "ready"
    /\ inits <= 1
    /\ params = "ready" <=> inits = 1

\* C9 witness: two contexts have finished different transactions with
\* different results.
C9_TwoContextsDone ==
    \E c, d \in Contexts :
        /\ c # d
        /\ wpc[c] = "done" /\ wpc[d] = "done"
        /\ wres[c] = Ret(TRUE) /\ wres[d] = Ret(FALSE)
        /\ inits = 1

\* C10: hash() is the 32-byte digest of the bytes get_bytes() returns for
\* the same value (both unwind when the value cannot be encoded), and two
\* Withdraws that differ in eth_address alone differ in bytes and in hash.
C10_HashOfCanonicalBytes ==
    /\ (out.hash # NoDigest /\ out.bytes # NotEncoded) =>
          IF IsPanic(out.bytes)
          THEN out.hash = UnwoundDigest
          ELSE out.hash = Sha256(out.bytes) /\ out.hash.len = 32
    /\ ( /\ orig.type = "Withdraw"
         /\ changed = "eth_address"
         /\ out.hash # NoDigest /\ out.bytes # NotEncoded
         /\ ~IsPanic(out.bytes) )
       => (out.bytes # origOut.bytes /\ out.hash # origOut.hash)

\* C10 witness: a Withdraw and its copy with another eth_address were both
\* encoded and hashed.
C10_TwoWithdrawsHashed ==
    /\ orig.type = "Withdraw"
    /\ changed = "eth_address"
    /\ out.hash # NoDigest /\ out.hash # UnwoundDigest
    /\ out.bytes # NotEncoded
    /\ origOut.hash # NoDigest

====
